---------------------------- MODULE Spec2Model ----------------------------
(***************************************************************************)
(* Verification model of the freelan core:                                 *)
(*   - freelan::switch_  (src/src/switch.cpp), the Ethernet frame          *)
(*     forwarding engine (hub / learning switch);                          *)
(*   - freelan::Socket   (src/src/internal/fscp/socket.hpp), the FSCP      *)
(*     HELLO engine (async_greet, endpoint contexts).                      *)
(* The two components share no state; each has its own specification       *)
(* (SpecSwitch, SpecSocket) over the same variables.                       *)
(***************************************************************************)
EXTENDS Integers, Sequences, FiniteSets, Bags, TLC

VARIABLES
    \* ---- freelan::switch_ ----
    m_routing_method,        \* configuration::RM_HUB or RM_SWITCH
    m_ports,                 \* the registered ports
    m_ethernet_address_map,  \* ethernet address -> port
    last_call,               \* history: arguments of the last receive_data
    writes,                  \* history: port->write(data) calls of that call
    map_before,              \* history: the address map before that call
    last_source_port,        \* history: address -> port of latest frame from it
    \* ---- freelan::Socket ----
    m_endpoint_contexts,     \* endpoint -> EndpointContext
    sends,                   \* async_send_to operations not yet completed
    handler_calls,           \* history: invocations of each greet's handler
    greets,                  \* history: what each async_greet call allocated
    received,                \* history: HELLO responses delivered by the network
    closed,                  \* close() has been called
    send_outcomes,           \* history: what the transport reported per greet
    buffer_refs,             \* use count of each greet's transmit buffer
    \* ---- threads inside the operations ----
    worker_pc,               \* where each worker thread is
    worker_local,            \* the locals of the call a worker is in
    \* ---- client2: three fscp::server2 on one io_service ----
    main_pc,                 \* how many of main's async_greet calls are made
    network,                 \* datagrams in flight
    outstanding,             \* per server: the HELLO wait of its greet
    peer_contexts,           \* per server: endpoint -> context
    servers_closed,          \* _stop_function has closed the servers
    hello_responses,         \* history: on_hello_response calls per server
    introduce_calls,         \* history: async_introduce_to calls per server
    presentations,           \* history: on_presentation calls per server
    disturbed                \* history: servers whose exchange was disturbed

switch_vars == <<m_routing_method, m_ports, m_ethernet_address_map,
                 last_call, writes, map_before, last_source_port>>
socket_vars == <<m_endpoint_contexts, sends, handler_calls, greets,
                 received, closed, send_outcomes, buffer_refs>>
thread_vars == <<worker_pc, worker_local>>
handshake_vars == <<main_pc, network, outstanding, peer_contexts,
                    servers_closed, hello_responses, introduce_calls,
                    presentations, disturbed>>
vars == <<switch_vars, socket_vars, thread_vars, handshake_vars>>

(***************************************************************************)
(* Bounds of the model.                                                    *)
(***************************************************************************)
NumPorts == 3
NumAddresses == 2
NumEndpoints == 2
MaxGreets == 3
MaxDatagrams == 1
NumWorkers == 2

Ports == 1..NumPorts
Addresses == 1..NumAddresses
Endpoints == 1..NumEndpoints

(***************************************************************************)
(*                          freelan::switch_                               *)
(***************************************************************************)
RM_HUB == "RM_HUB"
RM_SWITCH == "RM_SWITCH"
RoutingMethods == {RM_HUB, RM_SWITCH}

NoCall == [port |-> 0, data |-> <<>>]

\* A well-formed ethernet frame: target address, sender address, payload.
Frames == {<<t, s, "payload">> : t \in Addresses, s \in Addresses}

\* asiotap::osi::const_helper<ethernet_frame>: the target address is the
\* first field of the frame, the sender address the second.
EthernetTarget(data) == data[1]
EthernetSender(data) == data[2]

\* to_ethernet_address copies the address bytes into an array.
to_ethernet_address(buf) == buf

\* send_data_to: one write on the port.
send_data_to(port, data) == SetToBag({<<port, data>>})

send_data_from_reflecting(ports, source_port, data) ==
    SetToBag({<<port, data>> : port \in ports})

send_data_from_first_only(ports, source_port, data) ==
    LET others == ports \ {source_port}
    IN  IF others = {} THEN EmptyBag
        ELSE SetToBag({<<CHOOSE p \in others : TRUE, data>>})

\* send_data_from: BOOST_FOREACH over m_ports, skipping the source port.
RECURSIVE send_data_from(_, _, _)
send_data_from(ports, source_port, data) ==
    IF ports = {} THEN EmptyBag
    ELSE LET port == CHOOSE p \in ports : TRUE
             rest == send_data_from(ports \ {port}, source_port, data)
         IN  IF source_port # port
             THEN send_data_to(port, data) (+) rest
             ELSE rest

LearnInsertOnly(map, port, data) ==
    map @@ (to_ethernet_address(EthernetSender(data)) :> port)

\* m_ethernet_address_map[sender] = port (std::map operator[] then assign).
Learn(map, port, data) ==
    (to_ethernet_address(EthernetSender(data)) :> port) @@ map

\* The RM_SWITCH branch after learning: the target is looked up, and both
\* outcomes of the lookup are unimplemented ("TODO: Implement").
SwitchForward(map, ports, port, data) ==
    LET target == to_ethernet_address(EthernetTarget(data))
    IN  IF target \in DOMAIN map
        THEN EmptyBag
        ELSE EmptyBag

receive_data_learning_always(port, data) ==
    /\ last_call' = [port |-> port, data |-> data]
    /\ map_before' = m_ethernet_address_map
    /\ last_source_port' = (EthernetSender(data) :> port) @@ last_source_port
    /\ m_ethernet_address_map' = Learn(m_ethernet_address_map, port, data)
    /\ writes' = IF m_routing_method = RM_HUB
                 THEN send_data_from(m_ports, port, data)
                 ELSE SwitchForward(m_ethernet_address_map', m_ports, port, data)
    /\ UNCHANGED <<m_routing_method, m_ports>>

\* switch_::receive_data(port, data).
receive_data(port, data) ==
    /\ last_call' = [port |-> port, data |-> data]
    /\ map_before' = m_ethernet_address_map
    /\ last_source_port' = (EthernetSender(data) :> port) @@ last_source_port
    /\ IF m_routing_method = RM_HUB
       THEN /\ writes' = send_data_from(m_ports, port, data)
            /\ UNCHANGED m_ethernet_address_map
       ELSE /\ m_ethernet_address_map' = Learn(m_ethernet_address_map, port, data)
            /\ writes' = SwitchForward(m_ethernet_address_map', m_ports, port, data)
    /\ UNCHANGED <<m_routing_method, m_ports>>

ReceiveData ==
    /\ \E port \in Ports, data \in Frames : receive_data(port, data)
    /\ UNCHANGED <<socket_vars, thread_vars, handshake_vars>>

\* The fields every ethernet frame starts with.
EthernetHeader == <<"target", "sender">>

\* Buffers that end before the ethernet header does: empty, or cut inside
\* the header after the target address.
ShortFrames == {<<>>} \cup {<<t>> : t \in Addresses}
RawFrames == Frames \cup ShortFrames

Truncated(data) == Len(data) < Len(EthernetHeader)

\* switch_::receive_data(port, data) on a buffer shorter than the ethernet
\* header.  The RM_HUB branch does not look at the buffer: it floods it.  The
\* RM_SWITCH branch builds a const_helper<ethernet_frame> over it first, and
\* the helper refuses a buffer that cannot hold the header, so the call
\* leaves before learning.
receive_short_data(port, data) ==
    /\ last_call' = [port |-> port, data |-> data]
    /\ map_before' = m_ethernet_address_map
    /\ IF m_routing_method = RM_HUB
       THEN writes' = send_data_from(m_ports, port, data)
       ELSE writes' = EmptyBag
    /\ UNCHANGED <<m_routing_method, m_ports, m_ethernet_address_map,
                   last_source_port>>

\* receive_data with whatever buffer a port delivers.
ReceiveRawData ==
    /\ \E port \in Ports, data \in RawFrames :
          IF Truncated(data)
          THEN receive_short_data(port, data)
          ELSE receive_data(port, data)
    /\ UNCHANGED <<socket_vars, thread_vars, handshake_vars>>

InitSwitch ==
    /\ m_routing_method \in RoutingMethods
    /\ m_ports \in SUBSET Ports
    /\ m_ethernet_address_map = <<>>
    /\ last_call = NoCall
    /\ writes = EmptyBag
    /\ map_before = <<>>
    /\ last_source_port = <<>>

SocketIdle ==
    /\ m_endpoint_contexts = <<>>
    /\ sends = {}
    /\ handler_calls = <<>>
    /\ greets = <<>>
    /\ received = {}
    /\ closed = FALSE
    /\ send_outcomes = <<>>
    /\ buffer_refs = <<>>

ThreadsIdle ==
    /\ worker_pc = <<>>
    /\ worker_local = <<>>

\* No fscp::server2 has been constructed.
ServersIdle ==
    /\ main_pc = 0
    /\ network = {}
    /\ outstanding = <<>>
    /\ peer_contexts = <<>>
    /\ servers_closed = FALSE
    /\ hello_responses = <<>>
    /\ introduce_calls = <<>>
    /\ presentations = <<>>
    /\ disturbed = {}

NextSwitch == ReceiveData

InitSwitchSpec == InitSwitch /\ SocketIdle /\ ThreadsIdle /\ ServersIdle

NextSwitchRaw == ReceiveRawData

SpecSwitch == InitSwitchSpec /\ [][NextSwitch]_vars
SpecSwitchRaw == InitSwitchSpec /\ [][NextSwitchRaw]_vars

(***************************************************************************)
(* Claims about freelan::switch_, checked under SpecSwitch.                *)
(***************************************************************************)
Called == last_call # NoCall

\* The ports a flood from source_port reaches.
FloodPorts == m_ports \ {last_call.port}

\* C1: in RM_SWITCH mode, when address a was last seen as a source on port p
\* and a frame for a (from another sender) then arrives on a port q # p, both
\* ports registered, the frame is written once to p and to no other port.
C1_UnicastToLearnedPort ==
    (Called /\ m_routing_method = RM_SWITCH) =>
        \A a \in DOMAIN last_source_port :
            LET p == last_source_port[a]
                q == last_call.port
            IN  ( /\ EthernetTarget(last_call.data) = a
                  /\ EthernetSender(last_call.data) # a
                  /\ p \in m_ports /\ q \in m_ports
                  /\ p # q )
                => writes = SetToBag({<<p, last_call.data>>})

\* C2: in either routing mode, no write of a receive_data call goes to the
\* port the frame was received on.
C2_NeverReflected ==
    \A w \in BagToSet(writes) : w[1] # last_call.port

C2_Witness ==
    /\ Called
    /\ last_call.port \in m_ports
    /\ writes # EmptyBag

\* C3: in RM_SWITCH mode, a frame received on a registered port whose target
\* address is not in the address table is written once to every registered
\* port except the source port.
C3_UnknownUnicastFlooded ==
    (Called /\ m_routing_method = RM_SWITCH
        /\ last_call.port \in m_ports
        /\ EthernetTarget(last_call.data) \notin DOMAIN m_ethernet_address_map) =>
        \A p \in Ports :
            CopiesIn(<<p, last_call.data>>, writes)
                = IF p \in FloodPorts THEN 1 ELSE 0

\* C4: in RM_HUB mode, receive_data writes the received frame, unmodified,
\* exactly once to each registered port other than the source port, and
\* writes nothing else, whatever the frame's addresses.
C4_HubFloods ==
    (Called /\ m_routing_method = RM_HUB) =>
        /\ \A w \in BagToSet(writes) : w[2] = last_call.data
        /\ \A p \in Ports :
               CopiesIn(<<p, last_call.data>>, writes)
                   = IF p \in m_ports /\ p # last_call.port THEN 1 ELSE 0

C4_Witness ==
    /\ Called
    /\ m_routing_method = RM_HUB
    /\ last_call.port \in m_ports
    /\ Cardinality(FloodPorts) >= 2
    /\ BagCardinality(writes) = Cardinality(FloodPorts)

\* C5: in RM_SWITCH mode the address table holds exactly the addresses seen
\* as a frame's source, each mapped to the port of the latest frame from it.
C5_TableIsLatestSource ==
    m_routing_method = RM_SWITCH =>
        /\ DOMAIN m_ethernet_address_map = DOMAIN last_source_port
        /\ \A a \in DOMAIN last_source_port :
               m_ethernet_address_map[a] = last_source_port[a]

\* An address learned on one port has been re-learned on another.
C5_Witness ==
    /\ m_routing_method = RM_SWITCH
    /\ \E a \in DOMAIN map_before :
           /\ EthernetSender(last_call.data) = a
           /\ map_before[a] # last_call.port
           /\ m_ethernet_address_map[a] = last_call.port
    /\ \E b \in Addresses : b \notin DOMAIN m_ethernet_address_map

\* C14: a receive_data call from a registered port whose frame is shorter
\* than the ethernet header is rejected in both routing modes: it writes the frame to no port and
\* leaves the ethernet address table as it was.
C14_ShortFrameRejected ==
    (Called /\ last_call.port \in m_ports /\ Truncated(last_call.data)) =>
        /\ writes = EmptyBag
        /\ m_ethernet_address_map = map_before

\* C17: a receive_data call in RM_HUB mode leaves the ethernet address table
\* as it was, and no receive_data call changes the routing mode.
C17_HubLeavesTableAlone ==
    [][ /\ m_routing_method' = m_routing_method
        /\ m_routing_method = RM_HUB
               => m_ethernet_address_map' = m_ethernet_address_map ]_vars

\* Frames from two addresses went through the hub and the table is empty.
C17_Witness ==
    /\ m_routing_method = RM_HUB
    /\ Called
    /\ Cardinality(DOMAIN last_source_port) >= 2
    /\ m_ethernet_address_map = <<>>

(***************************************************************************)
(*                          freelan::Socket                                *)
(***************************************************************************)
\* A 32-bit unsigned number is kept as its two 16-bit halves <<high, low>>.
HalfModulus == 256 * 256
UInt32(high, low) == <<high, low>>
UINT32_ZERO == UInt32(0, 0)
UINT32_MAX == UInt32(HalfModulus - 1, HalfModulus - 1)

\* n + 1 in 32-bit unsigned arithmetic.
UInt32Increment(n) ==
    IF n[2] = HalfModulus - 1
    THEN UInt32((n[1] + 1) % HalfModulus, 0)
    ELSE UInt32(n[1], n[2] + 1)

\* b - a in 32-bit unsigned arithmetic.
UInt32Minus(b, a) ==
    LET borrow == IF b[2] < a[2] THEN 1 ELSE 0
    IN  UInt32((b[1] - a[1] - borrow) % HalfModulus, (b[2] - a[2]) % HalfModulus)

\* boost::system::error_code values seen by a completion handler.
EC_SUCCESS == "success"
EC_TRANSPORT_ERROR == "transport_error"
EC_OPERATION_ABORTED == "operation_aborted"

\* A default-constructed EndpointContext (what std::map::operator[] inserts).
DefaultEndpointContext == [next_hello_request_number |-> UINT32_ZERO]

\* EndpointContext::get_next_hello_request_number: the number handed out.
get_next_hello_request_number(context) == context.next_hello_request_number

\* ... and the context it leaves behind: a 32-bit counter that wraps.
AfterNextHelloRequestNumber(context) ==
    [context EXCEPT !.next_hello_request_number = UInt32Increment(@)]

\* The FSCP HELLO request datagram: a type discriminant and the request
\* number as four big-endian bytes.
MESSAGE_TYPE_HELLO_REQUEST == 0
HelloRequestMessage(unique_number) ==
    << MESSAGE_TYPE_HELLO_REQUEST,
       unique_number[1] \div 256,
       unique_number[1] % 256,
       unique_number[2] \div 256,
       unique_number[2] % 256 >>

\* write_fscp_hello_request_message(nullptr, 0, unique_number): the size
\* the message needs; nothing is written.
write_fscp_hello_request_message_size(unique_number) ==
    Len(HelloRequestMessage(unique_number))

get_endpoint_context_for_fresh(contexts, endpoint) ==
    (endpoint :> DefaultEndpointContext) @@ contexts

get_endpoint_context_for_evicting(contexts, endpoint) ==
    IF endpoint \in DOMAIN contexts
    THEN (endpoint :> contexts[endpoint])
    ELSE (endpoint :> DefaultEndpointContext)

\* get_endpoint_context_for: m_endpoint_contexts[endpoint], which inserts a
\* default context when the endpoint has none.  Gives the map afterwards.
get_endpoint_context_for(contexts, endpoint) ==
    IF endpoint \in DOMAIN contexts
    THEN contexts
    ELSE (endpoint :> DefaultEndpointContext) @@ contexts

\* std::make_shared<std::vector<char>>(required_size): value-initialised.
MakeBuffer(required_size) == [i \in 1..required_size |-> 0]

HandlerCall(ec, bytes_transferred) ==
    [ec |-> ec, bytes_transferred |-> bytes_transferred]

AsyncGreetAlsoCompletes(destination) ==
    /\ ~closed
    /\ Len(greets) < MaxGreets
    /\ LET contexts == get_endpoint_context_for(m_endpoint_contexts, destination)
           unique_number == get_next_hello_request_number(contexts[destination])
           buf == MakeBuffer(write_fscp_hello_request_message_size(unique_number))
           id == Len(greets) + 1
       IN  /\ m_endpoint_contexts' =
                 [contexts EXCEPT ![destination] = AfterNextHelloRequestNumber(@)]
           /\ greets' = Append(greets, [destination |-> destination,
                                        unique_number |-> unique_number])
           /\ sends' = sends \cup {[id |-> id, destination |-> destination,
                                    buf |-> buf]}
           /\ handler_calls' =
                 Append(handler_calls, <<HandlerCall(EC_SUCCESS, Len(buf))>>)
    /\ send_outcomes' = Append(send_outcomes, <<>>)
    /\ buffer_refs' = Append(buffer_refs, 1)
    /\ UNCHANGED <<received, closed, switch_vars, handshake_vars, thread_vars>>

\* Socket::async_greet(destination, handler).
AsyncGreet(destination) ==
    /\ ~closed
    /\ Len(greets) < MaxGreets
    /\ LET contexts == get_endpoint_context_for(m_endpoint_contexts, destination)
           unique_number == get_next_hello_request_number(contexts[destination])
           required_size == write_fscp_hello_request_message_size(unique_number)
           buf == MakeBuffer(required_size)
           id == Len(greets) + 1
       IN  /\ m_endpoint_contexts' =
                 [contexts EXCEPT ![destination] = AfterNextHelloRequestNumber(@)]
           /\ greets' = Append(greets, [destination |-> destination,
                                        unique_number |-> unique_number])
           \* m_socket.async_send_to(buf, destination, [buf, handler](...))
           /\ sends' = sends \cup {[id |-> id, destination |-> destination,
                                    buf |-> buf]}
           /\ handler_calls' = Append(handler_calls, <<>>)
    /\ send_outcomes' = Append(send_outcomes, <<>>)
    \* buf is held by the lambda; the local buf is gone on return
    /\ buffer_refs' = Append(buffer_refs, 1)
    /\ UNCHANGED <<received, closed, switch_vars, handshake_vars, thread_vars>>

\* What the transport hands to a send's completion: the whole buffer was
\* sent, or nothing was.
BytesTransferred(op, ec) == IF ec = EC_SUCCESS THEN Len(op.buf) ELSE 0

SendCompleteSwallowsError(op, ec) ==
    /\ op \in sends
    /\ sends' = sends \ {op}
    /\ send_outcomes' = [send_outcomes EXCEPT ![op.id] = Append(@, ec)]
    /\ buffer_refs' = [buffer_refs EXCEPT ![op.id] = @ - 1]
    /\ handler_calls' =
          [handler_calls EXCEPT ![op.id] = Append(@,
              HandlerCall(EC_SUCCESS, BytesTransferred(op, ec)))]
    /\ UNCHANGED <<m_endpoint_contexts, greets, received, closed, switch_vars, handshake_vars,
                   thread_vars>>

\* The completion lambda of async_send_to: handler(ec, bytes_transferred).
\* The transport decides ec; the operation is over once its handler ran.
SendComplete(op, ec) ==
    /\ op \in sends
    /\ sends' = sends \ {op}
    /\ send_outcomes' = [send_outcomes EXCEPT ![op.id] = Append(@, ec)]
    /\ buffer_refs' = [buffer_refs EXCEPT ![op.id] = @ - 1]
    /\ handler_calls' =
          [handler_calls EXCEPT ![op.id] = Append(@,
              HandlerCall(ec, BytesTransferred(op, ec)))]
    /\ UNCHANGED <<m_endpoint_contexts, greets, received, closed, switch_vars, handshake_vars,
                   thread_vars>>

CompleteSend ==
    \E op \in sends, ec \in {EC_SUCCESS, EC_TRANSPORT_ERROR} : SendComplete(op, ec)

\* close(): pending operations complete with the cancelled status and no
\* new operation is accepted; a second close changes nothing.
Close ==
    /\ closed' = TRUE
    /\ sends' = {}
    /\ handler_calls' =
          [id \in DOMAIN handler_calls |->
              IF \E op \in sends : op.id = id
              THEN Append(handler_calls[id], HandlerCall(EC_OPERATION_ABORTED, 0))
              ELSE handler_calls[id]]
    /\ send_outcomes' =
          [id \in DOMAIN send_outcomes |->
              IF \E op \in sends : op.id = id
              THEN Append(send_outcomes[id], EC_OPERATION_ABORTED)
              ELSE send_outcomes[id]]
    /\ buffer_refs' =
          [id \in DOMAIN buffer_refs |->
              IF \E op \in sends : op.id = id
              THEN buffer_refs[id] - 1
              ELSE buffer_refs[id]]
    /\ UNCHANGED <<m_endpoint_contexts, greets, received, switch_vars, handshake_vars,
                   thread_vars>>

\* The numbers a HELLO response delivered by the network may carry.
ResponseNumbers == {UINT32_ZERO, UINT32_MAX}

ReceiveHelloResponseByArrivalOrder(sender, unique_number) ==
    /\ Cardinality(received \cup {<<sender, unique_number>>}) <= MaxDatagrams
    /\ received' = received \cup {<<sender, unique_number>>}
    /\ LET waiting == {op \in sends : op.destination = sender}
       IN  /\ sends' = sends \ waiting
           /\ handler_calls' =
                 [id \in DOMAIN handler_calls |->
                     IF \E op \in waiting : op.id = id
                     THEN Append(handler_calls[id], HandlerCall(EC_SUCCESS, 0))
                     ELSE handler_calls[id]]
    /\ UNCHANGED <<m_endpoint_contexts, greets, closed, send_outcomes,
                   buffer_refs, switch_vars, handshake_vars, thread_vars>>

\* A HELLO response from sender reaches the local UDP port.  Socket starts
\* no receive operation and has no handler for inbound messages: the
\* datagram touches neither the endpoint contexts nor the pending greets.
ReceiveHelloResponse(sender, unique_number) ==
    /\ Cardinality(received \cup {<<sender, unique_number>>}) <= MaxDatagrams
    /\ received' = received \cup {<<sender, unique_number>>}
    /\ UNCHANGED <<m_endpoint_contexts, sends, handler_calls, greets, closed,
                   send_outcomes, buffer_refs, switch_vars, handshake_vars, thread_vars>>

\* A Socket just constructed, or one whose counters are about to wrap.
\* A direct call of the public get_endpoint_context_for(endpoint).
GetEndpointContextFor(endpoint) ==
    /\ m_endpoint_contexts' =
          get_endpoint_context_for(m_endpoint_contexts, endpoint)
    /\ UNCHANGED <<sends, handler_calls, greets, received, closed,
                   send_outcomes, buffer_refs, switch_vars, handshake_vars, thread_vars>>

InitSocket ==
    /\ m_endpoint_contexts \in
          { <<>>,
            [e \in Endpoints |->
                [next_hello_request_number |-> UINT32_MAX]] }
    /\ sends = {}
    /\ handler_calls = <<>>
    /\ greets = <<>>
    /\ received = {}
    /\ closed = FALSE
    /\ send_outcomes = <<>>
    /\ buffer_refs = <<>>

SwitchIdle ==
    /\ m_routing_method = RM_HUB
    /\ m_ports = {}
    /\ m_ethernet_address_map = <<>>
    /\ last_call = NoCall
    /\ writes = EmptyBag
    /\ map_before = <<>>
    /\ last_source_port = <<>>

NextSocket ==
    \/ \E destination \in Endpoints : AsyncGreet(destination)
    \/ CompleteSend
    \/ Close
    \/ \E sender \in Endpoints, unique_number \in ResponseNumbers :
           ReceiveHelloResponse(sender, unique_number)

InitSocketSpec == InitSocket /\ SwitchIdle /\ ThreadsIdle /\ ServersIdle

SpecSocket == InitSocketSpec /\ [][NextSocket]_vars

\* The Socket with its endpoint contexts also looked up directly.
NextContexts ==
    \/ \E destination \in Endpoints : AsyncGreet(destination)
    \/ \E endpoint \in Endpoints : GetEndpointContextFor(endpoint)
    \/ CompleteSend
    \/ Close

SpecContexts == InitSocketSpec /\ [][NextContexts]_vars

\* The io_service workers run every completion the transport produces.
FairSpecSocket == SpecSocket /\ WF_vars(CompleteSend)

(***************************************************************************)
(*     Worker threads inside Socket::async_greet and receive_data          *)
(*                                                                         *)
(* The io_service is run by several threads, and any of them may run the   *)
(* callback that calls into the same Socket or the same switch_.  Neither  *)
(* class takes a lock, so a call is a sequence of steps that the steps of  *)
(* other threads may come between.                                         *)
(***************************************************************************)
Workers == 1..NumWorkers

PC_IDLE == "idle"
PC_IN_ENDPOINT_CONTEXTS == "in_endpoint_contexts"
PC_RETURNING == "returning"
PC_IN_ETHERNET_ADDRESS_MAP == "in_ethernet_address_map"

NoLocals == [destination |-> 0, unique_number |-> UINT32_ZERO, id |-> 0,
             port |-> 0, data |-> <<>>]

\* Greets begun by workers that have not yet reached async_send_to.
GreetsBegun == Cardinality({w \in Workers : worker_pc[w] = PC_IN_ENDPOINT_CONTEXTS})

\* async_greet, first step: get_endpoint_context_for(destination) finds or
\* inserts the context, and the request number is read from it.
GreetEnter(w, destination) ==
    /\ worker_pc[w] = PC_IDLE
    /\ ~closed
    /\ Len(greets) + GreetsBegun < MaxGreets
    /\ LET contexts == get_endpoint_context_for(m_endpoint_contexts, destination)
       IN  /\ m_endpoint_contexts' = contexts
           /\ worker_local' = [worker_local EXCEPT ![w] =
                 [NoLocals EXCEPT
                    !.destination = destination,
                    !.unique_number =
                        get_next_hello_request_number(contexts[destination])]]
    /\ worker_pc' = [worker_pc EXCEPT ![w] = PC_IN_ENDPOINT_CONTEXTS]
    /\ UNCHANGED <<sends, handler_calls, greets, received, closed,
                   send_outcomes, buffer_refs, switch_vars, handshake_vars>>

GreetSendWithoutCapture(w) ==
    /\ worker_pc[w] = PC_IN_ENDPOINT_CONTEXTS
    /\ LET destination == worker_local[w].destination
           unique_number == worker_local[w].unique_number
           required_size == write_fscp_hello_request_message_size(unique_number)
           buf == MakeBuffer(required_size)
           id == Len(greets) + 1
       IN  /\ m_endpoint_contexts' =
                 [m_endpoint_contexts EXCEPT ![destination] =
                     [@ EXCEPT !.next_hello_request_number =
                                   UInt32Increment(unique_number)]]
           /\ greets' = Append(greets, [destination |-> destination,
                                        unique_number |-> unique_number])
           /\ sends' = sends \cup {[id |-> id, destination |-> destination,
                                    buf |-> buf]}
           /\ handler_calls' = Append(handler_calls, <<>>)
           /\ send_outcomes' = Append(send_outcomes, <<>>)
           /\ buffer_refs' = Append(buffer_refs, 1)
           /\ worker_local' = [worker_local EXCEPT ![w].id = id]
    /\ worker_pc' = [worker_pc EXCEPT ![w] = PC_RETURNING]
    /\ UNCHANGED <<received, closed, switch_vars, handshake_vars>>

\* async_greet, second step: the counter of the context is stored back one
\* past the number read, the buffer is made (the local buf holds it) and
\* async_send_to is started with a lambda that holds buf too.
GreetSend(w) ==
    /\ worker_pc[w] = PC_IN_ENDPOINT_CONTEXTS
    /\ LET destination == worker_local[w].destination
           unique_number == worker_local[w].unique_number
           required_size == write_fscp_hello_request_message_size(unique_number)
           buf == MakeBuffer(required_size)
           id == Len(greets) + 1
       IN  /\ m_endpoint_contexts' =
                 [m_endpoint_contexts EXCEPT ![destination] =
                     [@ EXCEPT !.next_hello_request_number =
                                   UInt32Increment(unique_number)]]
           /\ greets' = Append(greets, [destination |-> destination,
                                        unique_number |-> unique_number])
           /\ sends' = sends \cup {[id |-> id, destination |-> destination,
                                    buf |-> buf]}
           /\ handler_calls' = Append(handler_calls, <<>>)
           /\ send_outcomes' = Append(send_outcomes, <<>>)
           /\ buffer_refs' = Append(buffer_refs, 2)
           /\ worker_local' = [worker_local EXCEPT ![w].id = id]
    /\ worker_pc' = [worker_pc EXCEPT ![w] = PC_RETURNING]
    /\ UNCHANGED <<received, closed, switch_vars, handshake_vars>>

\* async_greet returns: its local buf goes out of scope.
GreetReturn(w) ==
    /\ worker_pc[w] = PC_RETURNING
    /\ buffer_refs' = [buffer_refs EXCEPT ![worker_local[w].id] = @ - 1]
    /\ worker_pc' = [worker_pc EXCEPT ![w] = PC_IDLE]
    /\ worker_local' = [worker_local EXCEPT ![w] = NoLocals]
    /\ UNCHANGED <<m_endpoint_contexts, sends, handler_calls, greets, received,
                   closed, send_outcomes, switch_vars, handshake_vars>>

\* receive_data in RM_SWITCH mode, first step: m_ethernet_address_map[sender]
\* finds or inserts the entry of the sender.
ReceiveEnter(w, port, data) ==
    /\ worker_pc[w] = PC_IDLE
    /\ m_routing_method = RM_SWITCH
    /\ worker_pc' = [worker_pc EXCEPT ![w] = PC_IN_ETHERNET_ADDRESS_MAP]
    /\ worker_local' = [worker_local EXCEPT ![w] =
          [NoLocals EXCEPT !.port = port, !.data = data]]
    /\ UNCHANGED <<switch_vars, socket_vars, handshake_vars>>

\* receive_data in RM_SWITCH mode, second step: the port is assigned to the
\* entry, the target is looked up, and the call returns.
ReceiveLeave(w) ==
    /\ worker_pc[w] = PC_IN_ETHERNET_ADDRESS_MAP
    /\ receive_data(worker_local[w].port, worker_local[w].data)
    /\ worker_pc' = [worker_pc EXCEPT ![w] = PC_IDLE]
    /\ worker_local' = [worker_local EXCEPT ![w] = NoLocals]
    /\ UNCHANGED <<socket_vars, handshake_vars>>

InitWorkers ==
    /\ worker_pc = [w \in Workers |-> PC_IDLE]
    /\ worker_local = [w \in Workers |-> NoLocals]

\* A switch_ in RM_SWITCH mode and a new Socket, used by the same workers.
InitWorkersSpec ==
    /\ InitSwitch
    /\ m_routing_method = RM_SWITCH
    /\ m_ports = Ports
    /\ SocketIdle
    /\ InitWorkers
    /\ ServersIdle

NextWorkers ==
    \/ \E w \in Workers, destination \in Endpoints : GreetEnter(w, destination)
    \/ \E w \in Workers : GreetSend(w)
    \/ \E w \in Workers : GreetReturn(w)
    \/ \E w \in Workers, port \in Ports, data \in Frames :
           ReceiveEnter(w, port, data)
    \/ \E w \in Workers : ReceiveLeave(w)

SpecWorkers == InitWorkersSpec /\ [][NextWorkers]_vars

\* One Socket whose async_greet is called by one worker at a time, while the
\* transport completes sends and close() may be called.
InitBufferSpec == InitSocket /\ SwitchIdle /\ InitWorkers /\ ServersIdle

NoGreetRunning == \A w \in Workers : worker_pc[w] = PC_IDLE

NextBuffer ==
    \/ \E w \in Workers, destination \in Endpoints :
           NoGreetRunning /\ GreetEnter(w, destination)
    \/ \E w \in Workers : GreetSend(w)
    \/ \E w \in Workers : GreetReturn(w)
    \/ CompleteSend
    \/ Close

SpecBuffer == InitBufferSpec /\ [][NextBuffer]_vars

(***************************************************************************)
(* Claims about freelan::Socket, checked under SpecSocket, and under       *)
(* FairSpecSocket where the claim is about what eventually happens.        *)
(***************************************************************************)
GreetIds == DOMAIN greets

\* The HELLO response that answers greet id.
AnswerTo(id) == <<greets[id].destination, greets[id].unique_number>>

Answered(id) == AnswerTo(id) \in received

InFlight(id) == \E op \in sends : op.id = id

\* An error code of the design that no code path of Socket produces.
EC_TIMED_OUT == "timed_out"

\* C6: a greet whose handler ran without error was answered: the HELLO
\* response from its destination bearing its request number has been
\* received.
C6_SuccessMeansAnswered ==
    \A id \in GreetIds :
        \A k \in DOMAIN handler_calls[id] :
            handler_calls[id][k].ec = EC_SUCCESS => Answered(id)

\* C7: whatever the interleaving of close(), send completions and response
\* arrivals, the handler of every async_greet is invoked exactly once:
\* never twice, and eventually once, with the cancelled status only when
\* close() was called.
C7_HandlerExactlyOnce ==
    /\ [](\A id \in GreetIds :
            /\ Len(handler_calls[id]) <= 1
            /\ \A k \in DOMAIN handler_calls[id] :
                   handler_calls[id][k].ec = EC_OPERATION_ABORTED => closed)
    /\ \A id \in 1..MaxGreets :
           (id \in GreetIds) ~> (id \in GreetIds /\ Len(handler_calls[id]) = 1)

\* close() cancelled one greet in flight after another had completed.
C7_Witness ==
    /\ closed
    /\ \E id \in GreetIds :
           handler_calls[id] = <<HandlerCall(EC_OPERATION_ABORTED, 0)>>
    /\ \E id \in GreetIds :
           /\ Len(handler_calls[id]) = 1
           /\ handler_calls[id][1].ec = EC_SUCCESS

C9_UnansweredGreetTimesOut ==
    \A id \in GreetIds :
        \A k \in DOMAIN handler_calls[id] :
            LET ec == handler_calls[id][k].ec
            IN  (~Answered(id)
                    /\ ec \notin {EC_OPERATION_ABORTED, EC_TRANSPORT_ERROR})
                => ec = EC_TIMED_OUT

\* b is after a in 32-bit serial order: 0 < (b - a) mod 2^32 < 2^31.
UInt32After(b, a) ==
    LET d == UInt32Minus(b, a)
    IN  d # UINT32_ZERO /\ d[1] < HalfModulus \div 2

SameDestination(i, j) == greets[i].destination = greets[j].destination

C13_SendErrorReachesHandler ==
    \A id \in GreetIds :
        \A k \in DOMAIN send_outcomes[id] :
            send_outcomes[id][k] # EC_SUCCESS =>
                /\ k \in DOMAIN handler_calls[id]
                /\ handler_calls[id][k].ec = send_outcomes[id][k]

\* The transport failed a send and the handler got the transport's error.
C13_Witness ==
    \E id \in GreetIds :
        /\ send_outcomes[id] = <<EC_TRANSPORT_ERROR>>
        /\ handler_calls[id] = <<HandlerCall(EC_TRANSPORT_ERROR, 0)>>

\* C18: the datagram a greet hands to the transport is the HELLO request
\* message carrying the request number the greet allocated: it has that
\* message's length and its content.
C18_DatagramIsEncodedHello ==
    \A op \in sends :
        LET message == HelloRequestMessage(greets[op.id].unique_number)
        IN  /\ Len(op.buf) = Len(message)
            /\ op.buf = message

\* What get_endpoint_context_for(endpoint) would do in the present state:
\* afterwards the endpoint has a context, a context it already had is the
\* one it keeps, and asking again changes nothing.
LookupIsLazyAndStable(endpoint) ==
    LET once == get_endpoint_context_for(m_endpoint_contexts, endpoint)
    IN  /\ endpoint \in DOMAIN once
        /\ get_endpoint_context_for(once, endpoint) = once
        /\ \A e \in DOMAIN m_endpoint_contexts :
              e \in DOMAIN once /\ once[e] = m_endpoint_contexts[e]

\* C16: endpoint contexts are created on first contact and kept: after a
\* greet of E or a lookup of E there is a context for E, a lookup of an
\* endpoint that has a context gives that context with its counter as it was,
\* only a greet of E moves E's counter (by one), and no step removes a context.
C16_ContextsLazyAndKept ==
    [][ /\ \A endpoint \in Endpoints : LookupIsLazyAndStable(endpoint)
        /\ \A e \in DOMAIN m_endpoint_contexts :
              /\ e \in DOMAIN m_endpoint_contexts'
              /\ \/ m_endpoint_contexts'[e] = m_endpoint_contexts[e]
                 \/ /\ Len(greets') = Len(greets) + 1
                    /\ greets'[Len(greets')].destination = e
                    /\ m_endpoint_contexts'[e] =
                          AfterNextHelloRequestNumber(m_endpoint_contexts[e])
        /\ Len(greets') > Len(greets) =>
              greets'[Len(greets')].destination \in DOMAIN m_endpoint_contexts'
      ]_vars

\* One endpoint got its context from a lookup alone, another was greeted
\* twice and its counter stands at two.
C16_Witness ==
    \E e1, e2 \in DOMAIN m_endpoint_contexts :
        /\ m_endpoint_contexts[e1] = DefaultEndpointContext
        /\ \A id \in GreetIds : greets[id].destination # e1
        /\ Cardinality({id \in GreetIds : greets[id].destination = e2}) = 2
        /\ m_endpoint_contexts[e2].next_hello_request_number
              = UInt32Increment(UInt32Increment(UINT32_ZERO))

\* C11: no two worker threads are at the same time inside an access to the
\* endpoint-context map, and no two are at the same time inside an access to
\* the ethernet address table.
C11_TableAccessSerialized ==
    \A w1, w2 \in Workers :
        (w1 # w2 /\ worker_pc[w1] = worker_pc[w2]) =>
            worker_pc[w1] \notin {PC_IN_ENDPOINT_CONTEXTS,
                                  PC_IN_ETHERNET_ADDRESS_MAP}

\* C12: the transmit buffer of a greet is allocated for as long as its send
\* is in flight and until the greet's handler has run, whether or not
\* async_greet has returned.
C12_BufferOutlivesSend ==
    \A id \in GreetIds :
        ((\E op \in sends : op.id = id) \/ handler_calls[id] = <<>>) =>
            buffer_refs[id] >= 1

\* async_greet has returned, its send is still in flight, and the lambda is
\* the only holder of the buffer.
C12_Witness ==
    \E op \in sends :
        /\ NoGreetRunning
        /\ handler_calls[op.id] = <<>>
        /\ buffer_refs[op.id] = 1

(***************************************************************************)
(*            samples/client2: alice and chris greet bob                   *)
(*                                                                         *)
(* main and the callbacks are client2.cpp's.  The engine they drive,       *)
(* fscp::server2, is the HELLO / PRESENTATION state machine: a greet sends *)
(* a HELLO and waits for the response bearing its number; a HELLO that the *)
(* on_hello callback accepts is answered; a PRESENTATION that the          *)
(* on_presentation callback accepts makes its sender TRUSTED.              *)
(***************************************************************************)
ALICE == "alice"
BOB == "bob"
CHRIS == "chris"
Servers == {ALICE, BOB, CHRIS}

\* main: alice_server.async_greet(bob_endpoint, ...) and then
\* chris_server.async_greet(bob_endpoint, ...).
MainGreets == <<[server |-> ALICE, endpoint |-> BOB],
                [server |-> CHRIS, endpoint |-> BOB]>>

HELLO_REQUEST == "HELLO_REQUEST"
HELLO_RESPONSE == "HELLO_RESPONSE"
PRESENTATION == "PRESENTATION"

UNKNOWN == "UNKNOWN"
HELLO_SENT == "HELLO_SENT"
PRESENTED == "PRESENTED"
TRUSTED == "TRUSTED"
CLOSED == "CLOSED"

NoCertificate == "none"

\* load_identity_store(name): the certificate of a server is named after it.
CertificateOf(server) == server

NewEndpointContext ==
    [next_hello_number |-> UINT32_ZERO,
     session_state |-> UNKNOWN,
     peer_signature_certificate |-> NoCertificate]

\* The context a server holds for an endpoint, made on first contact.
ContextOf(server, endpoint) ==
    IF endpoint \in DOMAIN peer_contexts[server]
    THEN peer_contexts[server][endpoint]
    ELSE NewEndpointContext

WithContext(contexts, server, endpoint, context) ==
    [contexts EXCEPT ![server] = (endpoint :> context) @@ @]

NoWait == [state |-> "none", endpoint |-> "none", number |-> UINT32_ZERO]

\* on_hello: returns default_accept.
on_hello(sender, default_accept) == default_accept

on_hello_response_always_introducing(sender, ec) == {sender}

\* on_hello_response: with an error it only prints; without one it calls
\* server.async_introduce_to(sender, ...).  Gives the endpoints it
\* introduces the server to.
on_hello_response(sender, ec) ==
    IF ec # EC_SUCCESS
    THEN {}
    ELSE {sender}

on_presentation_rejecting(sender, sig_cert, is_new) == FALSE

\* on_presentation: prints and returns true.
on_presentation(sender, sig_cert, is_new) == TRUE

\* The greeter whose exchange a datagram belongs to.
GreeterOf(m) == IF m.type = HELLO_RESPONSE THEN m.to ELSE m.from

\* main has made its calls and the threads run io_service::run.
Running == main_pc = Len(MainGreets)

\* main's next async_greet.  The engine takes the number from the context,
\* sends the HELLO and arms the wait; the transport may fail the send.
MainGreet ==
    /\ main_pc < Len(MainGreets)
    /\ ~servers_closed
    /\ LET call == MainGreets[main_pc + 1]
           server == call.server
           endpoint == call.endpoint
           context == ContextOf(server, endpoint)
           number == context.next_hello_number
       IN  \E send_ok \in BOOLEAN :
             /\ peer_contexts' = WithContext(peer_contexts, server, endpoint,
                   [context EXCEPT
                      !.next_hello_number = UInt32Increment(number),
                      !.session_state = HELLO_SENT])
             /\ outstanding' = [outstanding EXCEPT ![server] =
                   [state |-> IF send_ok THEN "waiting" ELSE "send_failed",
                    endpoint |-> endpoint, number |-> number]]
             /\ network' = IF send_ok
                           THEN network \cup
                                {[type |-> HELLO_REQUEST, from |-> server,
                                  to |-> endpoint, number |-> number,
                                  certificate |-> NoCertificate]}
                           ELSE network
             /\ disturbed' = IF send_ok THEN disturbed
                             ELSE disturbed \cup {server}
    /\ main_pc' = main_pc + 1
    /\ UNCHANGED <<servers_closed, hello_responses, introduce_calls,
                   presentations, switch_vars, socket_vars, thread_vars>>

\* The completion of a server's greet: on_hello_response(sender, ec) is
\* called, and async_introduce_to for each endpoint it asks for: the
\* PRESENTATION is sent, and simple_handler gets the send's error.
CompleteGreet(server, ec, delivered) ==
    LET sender == outstanding[server].endpoint
        introduced == on_hello_response(sender, ec)
    IN  \E send_ok \in BOOLEAN :
          /\ introduced = {} => send_ok
          /\ outstanding' = [outstanding EXCEPT ![server].state = "done"]
          /\ hello_responses' = [hello_responses EXCEPT ![server] =
                Append(@, [sender |-> sender, ec |-> ec])]
          /\ introduce_calls' = [introduce_calls EXCEPT ![server] =
                IF introduced = {} THEN @
                ELSE Append(@, [endpoint |-> sender,
                                ec |-> IF send_ok THEN EC_SUCCESS
                                       ELSE EC_TRANSPORT_ERROR])]
          /\ network' = (network \ delivered) \cup
                IF send_ok
                THEN {[type |-> PRESENTATION, from |-> server, to |-> e,
                       number |-> UINT32_ZERO,
                       certificate |-> CertificateOf(server)] :
                          e \in introduced}
                ELSE {}
          /\ peer_contexts' =
                IF introduced # {} /\ send_ok
                THEN WithContext(peer_contexts, server, sender,
                        [ContextOf(server, sender) EXCEPT
                            !.session_state = PRESENTED])
                ELSE peer_contexts
          /\ disturbed' = IF send_ok THEN disturbed
                          ELSE disturbed \cup {server}
          /\ UNCHANGED <<main_pc, servers_closed, presentations,
                         switch_vars, socket_vars, thread_vars>>

\* A datagram reaches a closed server, or a response reaches a server that
\* waits for no such response: it is discarded.
Discard(m) ==
    /\ network' = network \ {m}
    /\ UNCHANGED <<main_pc, outstanding, peer_contexts, servers_closed,
                   hello_responses, introduce_calls, presentations,
                   disturbed, switch_vars, socket_vars, thread_vars>>

\* A HELLO arrives: on_hello decides; an accepted HELLO is answered at once.
DeliverHelloRequest(m) ==
    /\ Running
    /\ m \in network
    /\ m.type = HELLO_REQUEST
    /\ IF servers_closed
       THEN Discard(m)
       ELSE \E default_accept \in BOOLEAN :
              LET accept == on_hello(m.from, default_accept)
                  context == ContextOf(m.to, m.from)
              IN  /\ network' = (network \ {m}) \cup
                        IF accept
                        THEN {[type |-> HELLO_RESPONSE, from |-> m.to,
                               to |-> m.from, number |-> m.number,
                               certificate |-> NoCertificate]}
                        ELSE {}
                  /\ peer_contexts' =
                        IF accept /\ context.session_state = UNKNOWN
                        THEN WithContext(peer_contexts, m.to, m.from,
                                [context EXCEPT !.session_state = HELLO_SENT])
                        ELSE peer_contexts
                  /\ disturbed' = IF accept THEN disturbed
                                  ELSE disturbed \cup {m.from}
                  /\ UNCHANGED <<main_pc, outstanding, servers_closed,
                                 hello_responses, introduce_calls,
                                 presentations, switch_vars, socket_vars,
                                 thread_vars>>

\* A HELLO response arrives: it completes the wait it matches by sender
\* and number, and is discarded otherwise.
DeliverHelloResponse(m) ==
    /\ Running
    /\ m \in network
    /\ m.type = HELLO_RESPONSE
    /\ IF /\ ~servers_closed
          /\ outstanding[m.to].state = "waiting"
          /\ outstanding[m.to].endpoint = m.from
          /\ outstanding[m.to].number = m.number
       THEN CompleteGreet(m.to, EC_SUCCESS, {m})
       ELSE Discard(m)

\* The retry window of a wait ends: nothing of the exchange is under way
\* any more and no response has come.
GreetTimeout(server) ==
    /\ Running
    /\ ~servers_closed
    /\ outstanding[server].state = "waiting"
    /\ \A m \in network :
          ~(m.type \in {HELLO_REQUEST, HELLO_RESPONSE} /\ GreeterOf(m) = server)
    /\ CompleteGreet(server, EC_TIMED_OUT, {})

\* The HELLO could not be sent: the greet completes with the send's error.
GreetSendFailed(server) ==
    /\ Running
    /\ ~servers_closed
    /\ outstanding[server].state = "send_failed"
    /\ CompleteGreet(server, EC_TRANSPORT_ERROR, {})

\* A PRESENTATION arrives: is_new tells whether the certificate is new for
\* the sender; when on_presentation accepts, the sender becomes TRUSTED and
\* its certificate is recorded.
DeliverPresentation(m) ==
    /\ Running
    /\ m \in network
    /\ m.type = PRESENTATION
    /\ IF servers_closed
       THEN Discard(m)
       ELSE LET context == ContextOf(m.to, m.from)
                is_new == context.peer_signature_certificate # m.certificate
                accept == on_presentation(m.from, m.certificate, is_new)
            IN  /\ network' = network \ {m}
                /\ presentations' = [presentations EXCEPT ![m.to] =
                      Append(@, [sender |-> m.from, is_new |-> is_new])]
                /\ peer_contexts' =
                      IF accept
                      THEN WithContext(peer_contexts, m.to, m.from,
                              [context EXCEPT
                                 !.session_state = TRUSTED,
                                 !.peer_signature_certificate = m.certificate])
                      ELSE peer_contexts
                /\ UNCHANGED <<main_pc, outstanding, servers_closed,
                               hello_responses, introduce_calls, disturbed,
                               switch_vars, socket_vars, thread_vars>>

\* The network drops a datagram.
Lose(m) ==
    /\ m \in network
    /\ network' = network \ {m}
    /\ disturbed' = disturbed \cup {GreeterOf(m)}
    /\ UNCHANGED <<main_pc, outstanding, peer_contexts, servers_closed,
                   hello_responses, introduce_calls, presentations,
                   switch_vars, socket_vars, thread_vars>>

Pending(server) == outstanding[server].state \in {"waiting", "send_failed"}

\* _stop_function: close() on the three servers.  Every pending greet
\* completes with the cancelled status, every context becomes CLOSED.
StopFunction ==
    /\ ~servers_closed
    /\ servers_closed' = TRUE
    /\ outstanding' = [server \in Servers |->
          IF Pending(server)
          THEN [outstanding[server] EXCEPT !.state = "done"]
          ELSE outstanding[server]]
    /\ hello_responses' = [server \in Servers |->
          IF Pending(server)
          THEN Append(hello_responses[server],
                      [sender |-> outstanding[server].endpoint,
                       ec |-> EC_OPERATION_ABORTED])
          ELSE hello_responses[server]]
    /\ introduce_calls' = [server \in Servers |->
          IF /\ Pending(server)
             /\ on_hello_response(outstanding[server].endpoint,
                                  EC_OPERATION_ABORTED) # {}
          THEN Append(introduce_calls[server],
                      [endpoint |-> outstanding[server].endpoint,
                       ec |-> EC_OPERATION_ABORTED])
          ELSE introduce_calls[server]]
    /\ peer_contexts' = [server \in Servers |->
          [endpoint \in DOMAIN peer_contexts[server] |->
              [peer_contexts[server][endpoint] EXCEPT !.session_state = CLOSED]]]
    /\ UNCHANGED <<main_pc, network, presentations, disturbed,
                   switch_vars, socket_vars, thread_vars>>

\* main after the servers are constructed and opened.
InitServers ==
    /\ main_pc = 0
    /\ network = {}
    /\ outstanding = [server \in Servers |-> NoWait]
    /\ peer_contexts = [server \in Servers |-> <<>>]
    /\ servers_closed = FALSE
    /\ hello_responses = [server \in Servers |-> <<>>]
    /\ introduce_calls = [server \in Servers |-> <<>>]
    /\ presentations = [server \in Servers |-> <<>>]
    /\ disturbed = {}

InitHandshakeSpec == InitServers /\ SwitchIdle /\ SocketIdle /\ ThreadsIdle

DeliverSome ==
    \E m \in network :
        \/ DeliverHelloRequest(m)
        \/ DeliverHelloResponse(m)
        \/ DeliverPresentation(m)

CompleteSome ==
    \E server \in Servers : GreetTimeout(server) \/ GreetSendFailed(server)

NextHandshake ==
    \/ MainGreet
    \/ \E m \in network : DeliverHelloRequest(m)
    \/ \E m \in network : DeliverHelloResponse(m)
    \/ \E m \in network : DeliverPresentation(m)
    \/ \E server \in Servers : GreetTimeout(server)
    \/ \E server \in Servers : GreetSendFailed(server)
    \/ \E m \in network : Lose(m)
    \/ StopFunction

SpecHandshake == InitHandshakeSpec /\ [][NextHandshake]_vars

\* main makes its calls, and the threads in io_service::run run every
\* handler that is ready: arrived datagrams and ended waits.
FairSpecHandshake ==
    /\ SpecHandshake
    /\ WF_vars(MainGreet)
    /\ WF_vars(DeliverSome)
    /\ WF_vars(CompleteSome)

(***************************************************************************)
(* Claims about the handshake of client2, checked under SpecHandshake, and *)
(* under FairSpecHandshake where the claim is about what eventually        *)
(* happens.                                                                *)
(***************************************************************************)
Greeters == {MainGreets[i].server : i \in DOMAIN MainGreets}

Greeted(server) == outstanding[server].state # "none"

\* The greet of the server to bob was answered, the server introduced
\* itself, bob's on_presentation was called for it with is_new, and bob
\* trusts it.
HandshakeDone(server) ==
    /\ hello_responses[server] = <<[sender |-> BOB, ec |-> EC_SUCCESS]>>
    /\ introduce_calls[server] = <<[endpoint |-> BOB, ec |-> EC_SUCCESS]>>
    /\ \E k \in DOMAIN presentations[BOB] :
          presentations[BOB][k] = [sender |-> server, is_new |-> TRUE]
    /\ ContextOf(BOB, server).session_state = TRUSTED

\* C15: when alice has greeted bob, then, unless a datagram of her exchange
\* is lost or refused or the servers are closed, her on_hello_response is
\* called without error, she sends her PRESENTATION, bob's on_presentation is
\* called for her with is_new = true and bob's context for her becomes
\* TRUSTED; and the same for chris.
C15_GreetLeadsToTrusted ==
    \A server \in Greeters :
        Greeted(server) ~>
            (HandshakeDone(server) \/ server \in disturbed \/ servers_closed)

\* Bob trusts alice and chris, nothing was lost and no server is closed.
C15_Witness ==
    /\ \A server \in Greeters : HandshakeDone(server)
    /\ disturbed = {}
    /\ ~servers_closed

\* C19: a server calls async_introduce_to(E) only in the step in which its
\* on_hello_response is called for E without error.
C19_IntroduceOnlyAfterGreetSucceeded ==
    [][ \A server \in Servers :
          introduce_calls'[server] # introduce_calls[server] =>
            /\ Len(introduce_calls'[server]) = Len(introduce_calls[server]) + 1
            /\ Len(hello_responses'[server]) = Len(hello_responses[server]) + 1
            /\ LET completion ==
                     hello_responses'[server][Len(hello_responses'[server])]
                   call == introduce_calls'[server][Len(introduce_calls'[server])]
               IN  /\ completion.ec = EC_SUCCESS
                   /\ completion.sender = call.endpoint
      ]_vars

\* One greet timed out and its server introduced itself to nobody; another
\* was answered and its server introduced itself to bob.
C19_Witness ==
    \E s1, s2 \in Greeters :
        /\ hello_responses[s1] = <<[sender |-> BOB, ec |-> EC_TIMED_OUT]>>
        /\ introduce_calls[s1] = <<>>
        /\ hello_responses[s2] = <<[sender |-> BOB, ec |-> EC_SUCCESS]>>
        /\ Len(introduce_calls[s2]) = 1

=============================================================================
